---- MODULE Spec2Model ----
(***************************************************************************)
(* A model of the session / connection layer of the RethinkDB driver       *)
(* (neor/src/connection.rs) together with the wire dispatcher, the cursor  *)
(* and the server it talks to.                                             *)
(*                                                                         *)
(* The token counter is an AtomicU64 in the code; the model keeps its      *)
(* behaviour (fetch-and-increment, wraparound, mark_broken at the largest  *)
(* value) on a narrow counter 0..TokenMax.                                 *)
(***************************************************************************)
EXTENDS Integers, Sequences, FiniteSets, TLC

Max2(a, b) == IF a >= b THEN a ELSE b
Min2(a, b) == IF a <= b THEN a ELSE b

\* ------------------------------------------------------------- bounds
TokenMax == 2          \* stands for u64::MAX: the largest token value
NumTasks == 2          \* caller tasks that use the session concurrently
MaxClones == 1         \* extra handles made by Connection::clone
MaxQueries == 2        \* queries started through build_query / run
MaxElems == 2          \* elements the server emits for one query
MaxBatch == 2          \* elements in one response batch

FewCalls == TokenMax        \* Session operations that leave the counter below TokenMax
ManyCalls == TokenMax + 2   \* connection() calls that wrap the counter

Tokens == 0..TokenMax
Tasks == 1..NumTasks
\* the long run of connection() calls has one more task: one keeps its Connection
\* while two others race at the largest token
Slots == 1..(NumTasks + 1)
NoSlot == 0
NoToken == -1

SessionOps == {"connection", "noreply_wait", "server", "close", "reconnect"}

\* database names: the one given at connect time and one to switch to
DbNames == {"test", "simbad"}
\* a name completely stored
Whole(n) == <<n, n>>

VARIABLES
    \* InnerSession
    token,          \* AtomicU64: the next token to hand out
    broken,         \* AtomicBool
    change_feed,    \* AtomicBool
    channels,       \* DashMap<u64, Sender>: token -> slot whose Sender is stored, or NoSlot
    build,          \* "any" until the first overflow, then "release" (wraps) or "debug" (panics)
    \* one caller task per slot, and the Connection it obtained
    pc,             \* where the task is
    op,             \* the Session operation the task runs
    tok,            \* Connection.token
    res,            \* result of the task's last Session operation
    clones,         \* live clones of the task's Connection
    closed,         \* Connection.closed (shared by the clones)
    chan,           \* the mpsc queue behind Connection.rx
    kind,           \* "none" | "query" | "feed": what the Connection runs
    got,            \* elements the cursor yielded, in order
    \* the socket and the server behind it
    toSrv,          \* frames written by the driver, not yet read by the server
    fromSrv,        \* frames written by the server, not yet read by the dispatcher
    srv,            \* per token: the server's state of the query
    dispatcher,     \* "run" | "stopped"
    \* history
    ncalls,         \* Session operations begun
    nqueries,       \* queries started
    issued,         \* per token: successful connection() calls that returned it
    lastRet,        \* largest token a returned connection() call was given
    floorTok,       \* per slot: lastRet when the slot's call started
    sawBroken,      \* per slot: the broken flag when the slot's operation started
    feedAll,        \* per slot: change_feed set and broken clear ever since the call started
    wrote,          \* per slot: frames the slot's current operation wrote to the socket
    written,        \* the <<query type, token>> pairs written to the socket
    nCont,          \* per slot: CONTINUE frames the cursor wrote
    srvSent,        \* per token: elements the server sent for the query, in order
    nPartial,       \* per slot: SUCCESS_PARTIAL batches the cursor received
    feedDropped,    \* tokens whose Connection was dropped with its changefeed open
    nErr,           \* per slot: errors the cursor yielded as items
    sawError,       \* per slot: a cursor had ended with a server error when the call started
    \* Session::close / reconnect
    noreply_wait,   \* per slot: the noreply_wait argument of the close or reconnect call
    pending,        \* per slot: frames written before the call began that the server has not read
    closing,        \* per slot: where a Connection::close call on the task's Connection is
    \* InnerSession.db: Mutex<Cow<'static, str>>
    db,             \* the stored name, as the two words a store writes one after the other
    dbLock,         \* the Mutex: TRUE while a use_ call holds it
    useName,        \* the name the use_ call that holds the lock is storing
    lastUse,        \* the name of the last use_ call that returned (the connect-time name at first)
    \* the query builder
    cmd,            \* the Command tree built so far
    out,            \* the serialisation of cmd, as JSON tokens; empty until cmd is serialised
    prev,           \* the Command with_parent was last called on
    parent,         \* the Command it was given as parent
    lastOp,         \* the builder operation that produced the present state
    shared,         \* the Command two chains are built on, as it was when the first began
    left,           \* the first chain built on cmd: empty, or the tree the call returned
    right,          \* the second chain built on cmd
    optStruct,      \* the option struct the last with_opts call was given
    optVal,         \* its fields: the value set, or none
    optObj,         \* what its Serialize impl wrote: the <<key, value>> pairs in order
    \* Command::run
    runRes,         \* per slot: what run returned, empty until it has
    \* the dispatcher's history
    stale,          \* tokens for which the dispatcher discarded a frame
    \* InnerSession.stream: Mutex<TcpStreamConnection>
    streamLock,     \* the slot whose task holds the Mutex, or NoSlot
    sock,           \* the chunks written to the socket, in order
    wpart,          \* per slot: chunks of its frame written so far
    wq              \* per slot: the query type of the frame it is writing

session == <<token, broken, change_feed, channels, build>>
tasks == <<pc, op, tok, res, clones, closed, chan, kind, got>>
wire == <<toSrv, fromSrv, srv, dispatcher>>
history == <<ncalls, nqueries, issued, lastRet, floorTok, sawBroken, feedAll, wrote,
             written, nCont, srvSent, nPartial, feedDropped>>
errs == <<nErr, sawError>>
closeSt == <<noreply_wait, pending, closing>>
dbSt == <<db, dbLock, useName, lastUse>>
termSt == <<cmd, out, prev, parent, lastOp>>
shareSt == <<shared, left, right>>
optSt == <<optStruct, optVal, optObj>>
sockSt == <<streamLock, sock, wpart, wq>>
later == <<shareSt, optSt, runRes, sockSt>>
extra == <<errs, closeSt, dbSt, termSt, later, stale>>
vars == <<session, tasks, wire, history, extra>>

\* ------------------------------------------------------------- values
QueryTypes == {"START", "CONTINUE", "STOP", "NOREPLY_WAIT", "SERVER_INFO"}
FinalTypes == {"SUCCESS_ATOM", "SUCCESS_SEQUENCE"}
ErrorTypes == {"RUNTIME_ERROR"}
\* what a channel carries: Result<(ResponseType, Response)>
ErrMsg == [err |-> TRUE, typ |-> "ConnectionBroken", r |-> <<>>]
OkMsg(typ, r) == [err |-> FALSE, typ |-> typ, r |-> r]

\* ------------------------------------------------------------- InnerSession
\* InnerSession::broken: Err(ConnectionBroken) exactly when the flag is set
BrokenNever(flag) == FALSE
BrokenErr(flag) == flag

\* InnerSession::change_feed: Err(ConnectionLocked) exactly when the flag is set
LockedNever(flag) == FALSE
ChangeFeedErr(flag) == flag

\* InnerSession::is_change_feed: the flag as it is
IsChangeFeedAlways(flag) == TRUE
IsChangeFeed(flag) == flag

\* InnerSession::token: fetch_update(|x| Some(x + 1)) on the counter's width
NextToken(x) == (x + 1) % (TokenMax + 1)

\* DashMap::insert / DashMap::remove on the registry
InsertAtZero(m, t, c) == [m EXCEPT ![0] = c]
ChannelsInsert(m, t, c) == [m EXCEPT ![t] = c]
ChannelsRemoveNot(m, t) == m
ChannelsRemove(m, t) == [m EXCEPT ![t] = NoSlot]

\* UnboundedSender::unbounded_send and the receiving end: a FIFO queue
SendLost(q, m) == q
ChanSend(q, m) == Append(q, m)

Registered(c) == tok[c] # NoToken /\ channels[tok[c]] = c

\* feedAll after a step that leaves the flags at cf and br
FeedAllAfter(cf, br) == [c \in Slots |-> feedAll[c] /\ cf /\ ~br]

\* the socket's history after a frame of type q for token t
WrittenAfter(q, t) == written \cup {<<q, t>>}

\* ------------------------------------------------------------- Command
MaxChain == 2          \* chained calls on one term
MaxFrames == 2         \* frames written to the socket by concurrent tasks
TermTypes == {"Table", "Insert", "Between", "GetAll", "Max"}
\* the wire code of a term type (ql2 TermType), as it is printed
TypeCode(t) ==
    CASE t = "Table" -> "15"
      [] t = "Insert" -> "56"
      [] t = "GetAll" -> "78"
      [] t = "Max" -> "148"
      [] OTHER -> "182"
\* JSON literals, as they are printed
FooName == "\"foo\""
BarDoc == "{\"item\":\"bar\"}"
Datums == {FooName, BarDoc}
\* option objects, as they are printed; a default options struct prints as {}
EmptyOpts == "{}"
OptValues == {EmptyOpts, "{\"index\":\"id\"}"}

\* Command::new(typ)
NewCommand(t) == [typ |-> t, datum |-> "none", args |-> <<>>, opts |-> "none"]
\* Command::from_json(value): a literal is a term without arguments
FromJson(v) == [typ |-> "Datum", datum |-> v, args |-> <<>>, opts |-> "none"]
\* Command::with_arg(arg): one more positional argument, at the end
WithArg(c, a) == [c EXCEPT !.args = Append(@, a)]
\* Command::with_parent(parent): the parent becomes argument 0
WithParentLast(c, p) == [c EXCEPT !.args = Append(@, p)]
WithParent(c, p) == [c EXCEPT !.args = <<p>> \o @]
\* Command::with_opts(opts): an options node, unless the options are the default ones
WithOpts(c, o) == IF o = EmptyOpts THEN [c EXCEPT !.opts = "none"] ELSE [c EXCEPT !.opts = o]

\* r.table(name)
TableCommand(name) == WithArg(NewCommand("Table"), FromJson(name))
\* InsertBuilder::new(document)
InsertCommand(document) == WithArg(NewCommand("Insert"), FromJson(document))
\* BetweenBuilder::new(lower_key, upper_key)
BetweenCommand(lower_key, upper_key) ==
    WithArg(WithArg(NewCommand("Between"), FromJson(lower_key)), FromJson(upper_key))

\* the number of chained calls that made c
RECURSIVE ChainLen(_)
ChainLen(c) ==
    IF c.args # <<>> /\ c.args[1].typ # "Datum" THEN 1 + ChainLen(c.args[1]) ELSE 0

\* the serialisations ss joined with commas
RECURSIVE Join(_)
Join(ss) ==
    IF ss = <<>> THEN <<>>
    ELSE IF Len(ss) = 1 THEN ss[1]
    ELSE ss[1] \o <<",">> \o Join(Tail(ss))

\* cmd::serialise: a literal prints as itself, a term as [code,[args...]] or
\* [code,[args...],{opts}]
RECURSIVE Serialise(_)
Serialise(c) ==
    IF c.typ = "Datum" THEN <<c.datum>>
    ELSE <<"[", TypeCode(c.typ), ",", "[">>
         \o Join([i \in 1..Len(c.args) |-> Serialise(c.args[i])])
         \o <<"]">>
         \o (IF c.opts = "none" THEN <<>> ELSE <<",", c.opts>>)
         \o <<"]">>

\* r.table(name): a new tree
TermTable(name) ==
    /\ cmd' = TableCommand(name)
    /\ out' = <<>>
    /\ lastOp' = "new"
    /\ UNCHANGED <<later, stale, prev, parent, errs, closeSt, dbSt, session, tasks, wire, history>>

\* a call chained on the tree: <builder>::new(..)._with_parent(self)
Chain(new) ==
    /\ ChainLen(cmd) < MaxChain
    /\ cmd' = WithParent(new, cmd)
    /\ prev' = new
    /\ parent' = cmd
    /\ out' = <<>>
    /\ lastOp' = "with_parent"
    /\ UNCHANGED <<later, stale, errs, closeSt, dbSt, session, tasks, wire, history>>

\* .insert(document)
TermInsert(document) == Chain(InsertCommand(document))

\* .between(lower_key, upper_key)
TermBetween(lower_key, upper_key) == Chain(BetweenCommand(lower_key, upper_key))

\* .with_opts(opts) on the tree
TermWithOpts(o) ==
    /\ cmd.typ # "Table"
    /\ cmd' = WithOpts(cmd, o)
    /\ out' = <<>>
    /\ lastOp' = "with_opts"
    /\ UNCHANGED <<later, stale, prev, parent, errs, closeSt, dbSt, session, tasks, wire, history>>

\* cmd::serialise(&query)
TermSerialise ==
    /\ out' = Serialise(cmd)
    /\ lastOp' = "serialise"
    /\ UNCHANGED <<later, stale, cmd, prev, parent, errs, closeSt, dbSt, session, tasks, wire, history>>

\* GetAllBuilder::new(index_keys): for index_key in index_keys { command.with_arg(..) }
RECURSIVE WithArgs(_, _)
WithArgs(c, keys) ==
    IF keys = <<>> THEN c ELSE WithArgs(WithArg(c, FromJson(Head(keys))), Tail(keys))
GetAllCommand(index_keys) == WithArgs(NewCommand("GetAll"), index_keys)
\* the key lists get_all is called with
KeyLists == {<<k>> : k \in Datums} \cup {<<k1, k2>> : k1 \in Datums, k2 \in Datums}
\* MaxBuilder::new(): constructor(None), a term without arguments
MaxCommand == NewCommand("Max")

\* ------------------------------------------------------------- option structs
OptStructs == {"GetAllOption", "MaxOption", "BetweenOption"}
\* the option struct of a builder
StructOf(t) ==
    CASE t = "GetAll" -> "GetAllOption"
      [] t = "Max" -> "MaxOption"
      [] t = "Between" -> "BetweenOption"
      [] OTHER -> "none"
\* the fields of an option struct, in declaration order
Fields(s) ==
    IF s = "BetweenOption" THEN <<"index", "left_bound", "right_bound">> ELSE <<"index">>
\* the field carries #[serde(skip_serializing_if = "Option::is_none")]
SkipIfNone(s, f) == s = "BetweenOption"
\* a value a field is set to, as it is printed
SetValue(f) ==
    CASE f = "index" -> "\"id\""
      [] f = "left_bound" -> "\"open\""
      [] OTHER -> "\"closed\""
\* the values of an option struct: each field None ("none") or Some(value)
OptionValues(s) ==
    {v \in [1..Len(Fields(s)) -> {"none"} \cup {SetValue(Fields(s)[i]) : i \in 1..Len(Fields(s))}] :
        \A i \in 1..Len(Fields(s)) : v[i] \in {"none", SetValue(Fields(s)[i])}}
\* <struct>::default(): every field None
DefaultOption(s) == [i \in 1..Len(Fields(s)) |-> "none"]

\* derive(Serialize) on the struct: the fields in order as key and value, None as
\* null, a field left out when it is None and carries skip_serializing_if
Written(p) == ~(p[3] /\ p[2] = "none")
SerialiseOption(s, v) ==
    LET all == [i \in 1..Len(Fields(s)) |-> <<Fields(s)[i], v[i], SkipIfNone(s, Fields(s)[i])>>]
        kept == SelectSeq(all, Written)
    IN [i \in 1..Len(kept) |-> <<kept[i][1], IF kept[i][2] = "none" THEN "null" ELSE kept[i][2]>>]

\* the object as JSON text
RECURSIVE PrintPairs(_)
PrintPairs(ps) ==
    IF ps = <<>> THEN ""
    ELSE "\"" \o ps[1][1] \o "\":" \o ps[1][2]
         \o (IF Len(ps) = 1 THEN "" ELSE "," \o PrintPairs(Tail(ps)))
PrintOption(obj) == "{" \o PrintPairs(obj) \o "}"

\* .get_all(index_keys)
TermGetAll(index_keys) == Chain(GetAllCommand(index_keys))

\* .max()
TermMax == Chain(MaxCommand)

\* make_query of a builder: self.0.with_opts(self.1) with the builder's option
\* struct; MaxBuilder::with_index gives with_opts an index that is set
MakeQuery(s, v) ==
    /\ s = StructOf(cmd.typ)
    /\ s = "MaxOption" => v[1] # "none"
    /\ optStruct' = s
    /\ optVal' = v
    /\ optObj' = SerialiseOption(s, v)
    /\ cmd' = WithOpts(cmd, PrintOption(SerialiseOption(s, v)))
    /\ out' = <<>>
    /\ lastOp' = "make_query"
    /\ UNCHANGED <<shareSt, runRes, sockSt, stale, prev, parent, errs, closeSt, dbSt, session,
                   tasks, wire, history>>

\* ------------------------------------------------------------- chains on a shared Command
\* a builder method called on c: <builder>::new(args).with_parent(self) with a
\* borrowed self; the tree returned, and c after the call
BuilderCallInPlace(c, new) == [ret |-> WithParent(new, c), recv |-> WithParent(new, c)]
BuilderCall(c, new) == [ret |-> WithParent(new, c), recv |-> c]

\* the terms chained on the shared Command
ChainedTerms ==
    {GetAllCommand(ks) : ks \in KeyLists}
        \cup {BetweenCommand(l, u) : l \in Datums, u \in Datums}
        \cup {InsertCommand(d) : d \in Datums}

\* r.table(name), kept by the caller to build two chains on it
ShareBase(name) ==
    /\ cmd' = TableCommand(name)
    /\ shared' = TableCommand(name)
    /\ left' = <<>>
    /\ right' = <<>>
    /\ out' = <<>>
    /\ lastOp' = "new"
    /\ UNCHANGED <<optSt, runRes, sockSt, stale, prev, parent, errs, closeSt, dbSt, session,
                   tasks, wire, history>>

\* the first chain: a builder method on cmd
ShareLeft(new) ==
    /\ left = <<>>
    /\ LET b == BuilderCall(cmd, new) IN
        /\ left' = <<b.ret>>
        /\ cmd' = b.recv
    /\ lastOp' = "left"
    /\ UNCHANGED <<shared, right, out, optSt, runRes, sockSt, stale, prev, parent, errs, closeSt,
                   dbSt, session, tasks, wire, history>>

\* the second chain: another builder method on cmd
ShareRight(new) ==
    /\ right = <<>>
    /\ LET b == BuilderCall(cmd, new) IN
        /\ right' = <<b.ret>>
        /\ cmd' = b.recv
    /\ lastOp' = "right"
    /\ UNCHANGED <<shared, left, out, optSt, runRes, sockSt, stale, prev, parent, errs, closeSt,
                   dbSt, session, tasks, wire, history>>

Init ==
    /\ token = 0
    /\ broken = FALSE
    /\ change_feed = FALSE
    /\ channels = [t \in Tokens |-> NoSlot]
    /\ build = "any"
    /\ pc = [c \in Slots |-> "idle"]
    /\ op = [c \in Slots |-> "none"]
    /\ tok = [c \in Slots |-> NoToken]
    /\ res = [c \in Slots |-> "none"]
    /\ clones = [c \in Slots |-> 0]
    /\ closed = [c \in Slots |-> FALSE]
    /\ chan = [c \in Slots |-> <<>>]
    /\ kind = [c \in Slots |-> "none"]
    /\ got = [c \in Slots |-> <<>>]
    /\ toSrv = <<>>
    /\ fromSrv = <<>>
    /\ srv = [t \in Tokens |-> [st |-> "none", feed |-> FALSE, n |-> 0, err |-> FALSE]]
    /\ dispatcher = "run"
    /\ ncalls = 0
    /\ nqueries = 0
    /\ issued = [t \in Tokens |-> 0]
    /\ lastRet = NoToken
    /\ floorTok = [c \in Slots |-> NoToken]
    /\ sawBroken = [c \in Slots |-> FALSE]
    /\ feedAll = [c \in Slots |-> FALSE]
    /\ wrote = [c \in Slots |-> 0]
    /\ written = {}
    /\ nCont = [c \in Slots |-> 0]
    /\ srvSent = [t \in Tokens |-> <<>>]
    /\ nPartial = [c \in Slots |-> 0]
    /\ feedDropped = {}
    /\ nErr = [c \in Slots |-> 0]
    /\ sawError = [c \in Slots |-> FALSE]
    /\ noreply_wait = [c \in Slots |-> FALSE]
    /\ pending = [c \in Slots |-> 0]
    /\ closing = [c \in Slots |-> "no"]
    /\ db = Whole("test")
    /\ dbLock = FALSE
    /\ useName = "none"
    /\ lastUse = "test"
    /\ cmd = TableCommand(FooName)
    /\ out = <<>>
    /\ prev = TableCommand(FooName)
    /\ parent = TableCommand(FooName)
    /\ lastOp = "new"
    /\ shared = TableCommand(FooName)
    /\ left = <<>>
    /\ right = <<>>
    /\ optStruct = "none"
    /\ optVal = <<>>
    /\ optObj = <<>>
    /\ runRes = [c \in Slots |-> <<>>]
    /\ stale = {}
    /\ streamLock = NoSlot
    /\ sock = <<>>
    /\ wpart = [c \in Slots |-> 0]
    /\ wq = [c \in Slots |-> "none"]

\* ------------------------------------------------------------- Session::connection
\* The first statement of connection(): self.inner.broken()?
Gate(c, o) ==
    /\ op' = [op EXCEPT ![c] = o]
    /\ sawBroken' = [sawBroken EXCEPT ![c] = broken]
    /\ floorTok' = [floorTok EXCEPT ![c] = lastRet]
    /\ feedAll' = [feedAll EXCEPT ![c] = change_feed /\ ~broken]
    /\ wrote' = [wrote EXCEPT ![c] = 0]
    /\ tok' = [tok EXCEPT ![c] = NoToken]
    /\ closed' = [closed EXCEPT ![c] = FALSE]
    /\ chan' = [chan EXCEPT ![c] = <<>>]
    /\ kind' = [kind EXCEPT ![c] = "none"]
    /\ got' = [got EXCEPT ![c] = <<>>]
    /\ nPartial' = [nPartial EXCEPT ![c] = 0]
    /\ nCont' = [nCont EXCEPT ![c] = 0]
    /\ nErr' = [nErr EXCEPT ![c] = 0]
    /\ sawError' = [sawError EXCEPT ![c] = \E d \in Slots : pc[d] = "error" /\ dispatcher = "run"]
    /\ IF BrokenErr(broken)
       THEN /\ pc' = [pc EXCEPT ![c] = "ret"]
            /\ res' = [res EXCEPT ![c] = "ConnectionBroken"]
       ELSE /\ pc' = [pc EXCEPT ![c] = "c_feed"]
            /\ res' = [res EXCEPT ![c] = "pending"]
    /\ UNCHANGED <<later, stale, termSt, dbSt, session, clones, wire, nqueries, issued, lastRet, written, srvSent,
                   feedDropped>>

\* the operation has returned: the task has its result. A Connection that
\* connection() returned stays with the task.
Return(c) ==
    /\ pc[c] = "ret"
    /\ LET keep == op[c] = "connection" /\ res[c] = "Ok" IN
        /\ pc' = [pc EXCEPT ![c] = IF keep THEN "open" ELSE "idle"]
        /\ tok' = [tok EXCEPT ![c] = IF keep THEN @ ELSE NoToken]
    /\ op' = [op EXCEPT ![c] = "none"]
    /\ res' = [res EXCEPT ![c] = "none"]
    /\ closed' = [closed EXCEPT ![c] = FALSE]
    /\ floorTok' = [floorTok EXCEPT ![c] = NoToken]
    /\ sawBroken' = [sawBroken EXCEPT ![c] = FALSE]
    /\ feedAll' = [feedAll EXCEPT ![c] = FALSE]
    /\ wrote' = [wrote EXCEPT ![c] = 0]
    /\ sawError' = [sawError EXCEPT ![c] = FALSE]
    /\ noreply_wait' = [noreply_wait EXCEPT ![c] = FALSE]
    /\ pending' = [pending EXCEPT ![c] = 0]
    /\ UNCHANGED <<later, stale, termSt, dbSt, nErr, closing, session, clones, chan, kind, got, wire, ncalls, nqueries, issued,
                   lastRet, written, nCont, srvSent, nPartial, feedDropped>>

\* A task calls connection(), noreply_wait(), server(), close() or reconnect():
\* each of them starts with connection()
\* the values of the noreply_wait argument of operation o
Args(o) == IF o \in {"close", "reconnect"} THEN BOOLEAN ELSE {FALSE}

Invoke(c, o, nw) ==
    /\ pc[c] = "idle"
    /\ clones[c] = 0
    /\ ncalls' = ncalls + 1
    /\ noreply_wait' = [noreply_wait EXCEPT ![c] = nw]
    /\ pending' = [pending EXCEPT ![c] = IF nw THEN Len(toSrv) ELSE 0]
    /\ UNCHANGED closing
    /\ Gate(c, o)

\* reconnect: close(..).and_then(|_| async { self.connection() })
Reinvoke(c) ==
    /\ pc[c] = "rc_again"
    /\ UNCHANGED <<ncalls, closeSt>>
    /\ Gate(c, "reconnect2")

\* self.inner.change_feed()?
CallFeed(c) ==
    /\ pc[c] = "c_feed"
    /\ IF ChangeFeedErr(change_feed)
       THEN /\ pc' = [pc EXCEPT ![c] = "ret"]
            /\ res' = [res EXCEPT ![c] = "ConnectionLocked"]
       ELSE /\ pc' = [pc EXCEPT ![c] = "c_token"]
            /\ UNCHANGED res
    /\ UNCHANGED <<extra, session, op, tok, clones, closed, chan, kind, got, wire, history>>

\* self.inner.token(): the fetch_update below the largest value
CallToken(c) ==
    /\ pc[c] = "c_token"
    /\ token < TokenMax
    /\ tok' = [tok EXCEPT ![c] = token]
    /\ token' = NextToken(token)
    /\ pc' = [pc EXCEPT ![c] = "c_insert"]
    /\ UNCHANGED <<extra, broken, change_feed, channels, build, op, res, clones, closed, chan,
                   kind, got, wire, history>>

\* the fetch_update at the largest value, where x + 1 overflows, in a build
\* without overflow checks: the counter wraps to 0 and the old value is returned
CallTokenLast(c) ==
    /\ pc[c] = "c_token"
    /\ token = TokenMax
    /\ build \in {"any", "release"}
    /\ build' = "release"
    /\ tok' = [tok EXCEPT ![c] = token]
    /\ token' = NextToken(token)
    /\ pc' = [pc EXCEPT ![c] = "c_mark"]
    /\ UNCHANGED <<extra, broken, change_feed, channels, op, res, clones, closed, chan, kind,
                   got, wire, history>>

\* the same in a build with overflow checks: x + 1 panics inside the closure,
\* nothing is stored and the call does not return a Connection
CallTokenPanic(c) ==
    /\ pc[c] = "c_token"
    /\ token = TokenMax
    /\ build \in {"any", "debug"}
    /\ build' = "debug"
    /\ pc' = [pc EXCEPT ![c] = "ret"]
    /\ res' = [res EXCEPT ![c] = "panic"]
    /\ UNCHANGED <<extra, token, broken, change_feed, channels, op, tok, clones, closed, chan,
                   kind, got, wire, history>>

\* token(): if token == u64::MAX { self.mark_broken() }
CallMark(c) ==
    /\ pc[c] = "c_mark"
    /\ broken' = TRUE
    /\ feedAll' = FeedAllAfter(change_feed, TRUE)
    /\ pc' = [pc EXCEPT ![c] = "c_insert"]
    /\ UNCHANGED <<extra, token, change_feed, channels, build, op, tok, res, clones, closed,
                   chan, kind, got, wire, ncalls, nqueries, issued, lastRet, floorTok,
                   sawBroken, wrote, written, nCont, srvSent, nPartial, feedDropped>>

\* mpsc::unbounded(); channels.insert(token, tx); Ok(Connection::new(..)).
\* connection() hands the Connection to the caller; the other Session operations
\* go on with it.
CallInsert(c) ==
    /\ pc[c] = "c_insert"
    /\ channels' = ChannelsInsert(channels, tok[c], c)
    /\ chan' = [chan EXCEPT ![c] = <<>>]
    /\ issued' = [issued EXCEPT ![tok[c]] = Min2(@ + 1, 2)]
    /\ lastRet' = Max2(lastRet, tok[c])
    /\ res' = [res EXCEPT ![c] = "Ok"]
    /\ pc' = [pc EXCEPT ![c] =
                CASE op[c] = "connection" -> "ret"
                  [] op[c] \in {"noreply_wait", "server"} -> "rq_write"
                  [] op[c] \in {"close", "reconnect"} -> "cl_check"
                  [] OTHER -> "op_drop"]
    /\ UNCHANGED <<extra, token, broken, change_feed, build, op, tok, clones, closed, kind, got,
                   wire, ncalls, nqueries, floorTok, sawBroken, feedAll, wrote, written,
                   nCont, srvSent, nPartial, feedDropped>>

\* ------------------------------------------------------------- Connection
\* impl Drop for Connection: channels.remove(&token); if is_change_feed()
\* { unmark_change_feed() }. What the drop of one handle of slot c does to the session.
DropEffects(c) ==
    /\ channels' = ChannelsRemove(channels, tok[c])
    /\ change_feed' = FALSE
    /\ feedAll' = FeedAllAfter(FALSE, broken)
    /\ UNCHANGED <<token, broken, build>>

\* derive(Clone) for Connection: one more handle with the same token, rx and closed
CloneConn(c) ==
    /\ pc[c] \in {"open", "await", "cont", "done", "error", "ended"}
    /\ clones[c] < MaxClones
    /\ clones' = [clones EXCEPT ![c] = @ + 1]
    /\ UNCHANGED <<extra, session, pc, op, tok, res, closed, chan, kind, got, wire, history>>

\* a clone goes out of scope; the slot is free again once no handle is left
DropClone(c) ==
    /\ clones[c] > 0
    /\ clones' = [clones EXCEPT ![c] = @ - 1]
    /\ DropEffects(c)
    /\ tok' = [tok EXCEPT ![c] = IF pc[c] = "idle" /\ clones[c] = 1 THEN NoToken ELSE @]
    /\ UNCHANGED <<extra, pc, op, res, closed, chan, kind, got, wire, ncalls, nqueries,
                   issued, lastRet, floorTok, sawBroken, wrote, written, nCont, srvSent,
                   nPartial, feedDropped>>

FeedOpen(c) == kind[c] = "feed" /\ pc[c] \in {"await", "cont"}

\* the caller's Connection, or the stream that owns it, goes out of scope
DropConn(c) ==
    /\ pc[c] \in {"open", "await", "cont", "done", "error", "ended"}
    /\ DropEffects(c)
    /\ feedDropped' = IF FeedOpen(c) THEN feedDropped \cup {tok[c]} ELSE feedDropped
    /\ pc' = [pc EXCEPT ![c] = "idle"]
    /\ tok' = [tok EXCEPT ![c] = IF clones[c] = 0 THEN NoToken ELSE @]
    /\ chan' = [chan EXCEPT ![c] = <<>>]
    /\ kind' = [kind EXCEPT ![c] = "none"]
    /\ got' = [got EXCEPT ![c] = <<>>]
    /\ nPartial' = [nPartial EXCEPT ![c] = 0]
    /\ nCont' = [nCont EXCEPT ![c] = 0]
    /\ nErr' = [nErr EXCEPT ![c] = 0]
    /\ closing[c] \notin {"write", "await"}
    /\ closing' = [closing EXCEPT ![c] = "no"]
    /\ noreply_wait' = [noreply_wait EXCEPT ![c] = FALSE]
    /\ UNCHANGED <<later, stale, termSt, dbSt, sawError, pending, op, res, clones, closed, wire, ncalls, nqueries, issued, lastRet,
                   floorTok, sawBroken, wrote, written, srvSent>>

\* ------------------------------------------------------------- the socket
Frame(q, t, feed, arg) == [q |-> q, t |-> t, feed |-> feed, arg |-> arg]
Reply(t, typ, r) == [t |-> t, typ |-> typ, r |-> r]

\* Connection::request, first half: the frame is written under the stream mutex
WriteFrame(c, q, feed, arg) ==
    /\ toSrv' = Append(toSrv, Frame(q, tok[c], feed, arg))
    /\ wrote' = [wrote EXCEPT ![c] = Min2(@ + 1, 2)]
    /\ written' = WrittenAfter(q, tok[c])

\* a frame goes out in two writes: the header with the token and the length,
\* then the body
FrameChunks == <<"header", "body">>

\* self.session.inner.stream.lock().await: the Mutex is acquired once nobody holds it
StreamLockIgnored(holder) == TRUE
StreamFree(holder) == holder = NoSlot

\* Connection::request: the task takes the stream's Mutex to write a frame of
\* type q under its token
SockLock(c, q) ==
    /\ pc[c] = "open"
    /\ wq[c] = "none"
    /\ StreamFree(streamLock)
    /\ streamLock' = c
    /\ wq' = [wq EXCEPT ![c] = q]
    /\ wpart' = [wpart EXCEPT ![c] = 0]
    /\ UNCHANGED <<sock, errs, closeSt, dbSt, termSt, shareSt, optSt, runRes, stale, session,
                   tasks, wire, history>>

\* one write call of the task that is writing: the next chunk of its frame
SockWrite(c) ==
    /\ wq[c] # "none"
    /\ wpart[c] < Len(FrameChunks)
    /\ sock' = Append(sock, <<tok[c], wq[c], FrameChunks[wpart[c] + 1]>>)
    /\ wpart' = [wpart EXCEPT ![c] = @ + 1]
    /\ UNCHANGED <<streamLock, wq, errs, closeSt, dbSt, termSt, shareSt, optSt, runRes, stale,
                   session, tasks, wire, history>>

\* the frame is out and the server can read it; the guard is dropped
SockUnlock(c) ==
    /\ wq[c] # "none"
    /\ wpart[c] = Len(FrameChunks)
    /\ WriteFrame(c, wq[c], FALSE, "none")
    /\ streamLock' = NoSlot
    /\ wq' = [wq EXCEPT ![c] = "none"]
    /\ wpart' = [wpart EXCEPT ![c] = 0]
    /\ UNCHANGED <<sock, errs, closeSt, dbSt, termSt, shareSt, optSt, runRes, stale, session,
                   tasks, fromSrv, srv, dispatcher, ncalls, nqueries, issued, lastRet,
                   floorTok, sawBroken, feedAll, nCont, srvSent, nPartial, feedDropped>>

\* frames written or being written
FramesBegun == Len(toSrv) + Cardinality({c \in Slots : wq[c] # "none"})

\* ------------------------------------------------------------- noreply_wait, server
\* the query type of the operation's payload: Payload(QueryType::NoreplyWait, ..)
\* in noreply_wait, Payload(QueryType::ServerInfo, ..) in server
RequestTypeInfo(o) == "SERVER_INFO"
RequestType(o) == IF o = "noreply_wait" THEN "NOREPLY_WAIT" ELSE "SERVER_INFO"

\* conn.request(&payload, false): write NOREPLY_WAIT or SERVER_INFO under the fresh token
RqWrite(c) ==
    /\ pc[c] = "rq_write"
    /\ WriteFrame(c, RequestType(op[c]), FALSE, "none")
    /\ pc' = [pc EXCEPT ![c] = "rq_await"]
    /\ UNCHANGED <<extra, session, op, tok, res, clones, closed, chan, kind, got, fromSrv, srv,
                   dispatcher, ncalls, nqueries, issued, lastRet, floorTok, sawBroken,
                   feedAll, nCont, srvSent, nPartial, feedDropped>>

\* ... .await?: the response for the token, or the error
RqAwait(c) ==
    /\ pc[c] = "rq_await"
    /\ chan[c] # <<>>
    /\ chan' = [chan EXCEPT ![c] = Tail(@)]
    /\ res' = [res EXCEPT ![c] = IF Head(chan[c]).err THEN "Error" ELSE "Ok"]
    /\ pc' = [pc EXCEPT ![c] = "op_drop"]
    /\ UNCHANGED <<extra, session, op, tok, clones, closed, kind, got, wire, history>>

\* ------------------------------------------------------------- Session::close
\* Connection::set_closed(true): the AtomicBool behind the Arc all clones share
SetClosedNot(f, c) == f
SetClosed(f, c) == [f EXCEPT ![c] = TRUE]

\* Connection::close on the Connection that Session::close just obtained:
\* if !is_change_feed() { return Ok(()) }; self.set_closed(true)
ClCheck(c) ==
    /\ pc[c] = "cl_check"
    /\ IF ~IsChangeFeed(change_feed)
       THEN /\ pc' = [pc EXCEPT ![c] = "op_drop"]
            /\ UNCHANGED closed
       ELSE /\ pc' = [pc EXCEPT ![c] = "cl_write"]
            /\ closed' = SetClosed(closed, c)
    /\ UNCHANGED <<extra, session, op, tok, res, clones, chan, kind, got, wire, history>>

\* the STOP query's argument: None when noreply_wait, else the options {"noreply": false}
StopArg(nw) == IF nw THEN "none" ELSE "noreply_false"

\* self.request(&payload, false): the STOP goes out under this Connection's token
ClWrite(c) ==
    /\ pc[c] = "cl_write"
    /\ WriteFrame(c, "STOP", FALSE, StopArg(noreply_wait[c]))
    /\ pc' = [pc EXCEPT ![c] = "cl_await"]
    /\ UNCHANGED <<extra, session, op, tok, res, clones, closed, chan, kind, got, fromSrv, srv,
                   dispatcher, ncalls, nqueries, issued, lastRet, floorTok, sawBroken,
                   feedAll, nCont, srvSent, nPartial, feedDropped>>

\* ... .await?; self.session.inner.unmark_change_feed()
ClAwait(c) ==
    /\ pc[c] = "cl_await"
    /\ chan[c] # <<>>
    /\ chan' = [chan EXCEPT ![c] = Tail(@)]
    /\ pc' = [pc EXCEPT ![c] = "op_drop"]
    /\ IF Head(chan[c]).err
       THEN /\ res' = [res EXCEPT ![c] = "Error"]
            /\ UNCHANGED <<change_feed, feedAll>>
       ELSE /\ res' = [res EXCEPT ![c] = "Ok"]
            /\ change_feed' = FALSE
            /\ feedAll' = FeedAllAfter(FALSE, broken)
    /\ UNCHANGED <<extra, token, broken, channels, build, op, tok, clones, closed, kind, got,
                   wire, ncalls, nqueries, issued, lastRet, floorTok, sawBroken, wrote,
                   written, nCont, srvSent, nPartial, feedDropped>>

\* ------------------------------------------------------------- Connection::close
\* Connection::close called by the user on the Connection of slot c, or on a clone
\* of it, while a query may be running on it: without a changefeed on the session
\* it returns Ok and does nothing, else it sets closed and goes on to the STOP
ConnClose(c, nw) ==
    /\ pc[c] \in {"open", "await"}
    /\ closing[c] = "no"
    /\ noreply_wait' = [noreply_wait EXCEPT ![c] = nw]
    /\ IF ~IsChangeFeed(change_feed)
       THEN /\ closing' = [closing EXCEPT ![c] = "noop"]
            /\ UNCHANGED closed
       ELSE /\ closing' = [closing EXCEPT ![c] = "write"]
            /\ closed' = SetClosed(closed, c)
    /\ UNCHANGED <<later, stale, termSt, dbSt, errs, pending, session, pc, op, tok, res, clones, chan, kind, got, wire,
                   history>>

\* self.request(&payload, false): the STOP goes out under self.token
ConnCloseWrite(c) ==
    /\ closing[c] = "write"
    /\ WriteFrame(c, "STOP", FALSE, StopArg(noreply_wait[c]))
    /\ closing' = [closing EXCEPT ![c] = "await"]
    /\ UNCHANGED <<later, stale, termSt, dbSt, errs, noreply_wait, pending, session, tasks, fromSrv, srv, dispatcher,
                   ncalls, nqueries, issued, lastRet, floorTok, sawBroken, feedAll, nCont,
                   srvSent, nPartial, feedDropped>>

\* ... .await?; self.session.inner.unmark_change_feed(): the flag is cleared once
\* the response has come; an error, or a channel closed under the call, returns early
ConnCloseAwait(c) ==
    /\ closing[c] = "await"
    /\ chan[c] # <<>> \/ ~Registered(c)
    /\ IF chan[c] # <<>> /\ ~Head(chan[c]).err
       THEN /\ closing' = [closing EXCEPT ![c] = "ok"]
            /\ change_feed' = FALSE
            /\ feedAll' = FeedAllAfter(FALSE, broken)
       ELSE /\ closing' = [closing EXCEPT ![c] = "err"]
            /\ UNCHANGED <<change_feed, feedAll>>
    /\ chan' = [chan EXCEPT ![c] = IF @ # <<>> THEN Tail(@) ELSE @]
    /\ UNCHANGED <<later, stale, termSt, dbSt, errs, noreply_wait, pending, token, broken, channels, build, pc, op, tok,
                   res, clones, closed, kind, got, wire, ncalls, nqueries, issued, lastRet,
                   floorTok, sawBroken, wrote, written, nCont, srvSent, nPartial, feedDropped>>

\* the Connection a Session operation made for itself goes out of scope when the
\* operation returns; reconnect then goes on to its connection() call
OpDrop(c) ==
    /\ pc[c] = "op_drop"
    /\ DropEffects(c)
    /\ pc' = [pc EXCEPT ![c] =
                IF op[c] = "reconnect" /\ res[c] = "Ok" THEN "rc_again" ELSE "ret"]
    /\ UNCHANGED <<extra, op, tok, res, clones, closed, chan, kind, got, wire, ncalls, nqueries,
                   issued, lastRet, floorTok, sawBroken, wrote, written, nCont, srvSent,
                   nPartial, feedDropped>>

\* ------------------------------------------------------------- Session::use_
\* self.inner.db.lock().await: the Mutex is acquired once nobody holds it
DbLockIgnored(held) == TRUE
DbLockFree(held) == ~held

\* use_(d): *self.inner.db.lock().await = d, the store of the new string begun
\* under the lock
UseLock(d) ==
    /\ DbLockFree(dbLock)
    /\ dbLock' = TRUE
    /\ useName' = d
    /\ db' = <<d, db[2]>>
    /\ UNCHANGED <<later, stale, termSt, errs, closeSt, lastUse, session, tasks, wire, history>>

\* the store completed, the guard dropped, Ok(()) returned
UseStore ==
    /\ dbLock
    /\ db' = <<db[1], useName>>
    /\ dbLock' = FALSE
    /\ lastUse' = useName
    /\ useName' = "none"
    /\ UNCHANGED <<later, stale, termSt, errs, closeSt, session, tasks, wire, history>>

\* ------------------------------------------------------------- the cursor
\* run / build_query on the caller's Connection: a changefeed query marks the
\* session, then the START goes out under the Connection's token
StartQuery(c, k) ==
    /\ pc[c] = "open"
    /\ DbLockFree(dbLock)
    /\ nqueries' = nqueries + 1
    /\ kind' = [kind EXCEPT ![c] = k]
    /\ change_feed' = (change_feed \/ k = "feed")
    /\ WriteFrame(c, "START", k = "feed", db)
    /\ pc' = [pc EXCEPT ![c] = "await"]
    /\ runRes' = [runRes EXCEPT ![c] = <<>>]
    /\ UNCHANGED <<errs, closeSt, dbSt, termSt, shareSt, optSt, sockSt, stale, token, broken,
                   channels, build, op, tok, res, clones, closed, chan,
                   got, fromSrv, srv, dispatcher, ncalls, issued, lastRet, floorTok,
                   sawBroken, feedAll, nCont, srvSent, nPartial, feedDropped>>

\* where the cursor goes on a message: a transport error or an error response
\* ends the stream with the error, a partial batch asks for a CONTINUE, any
\* other response is the last one
CursorAlwaysContinues(m) == "cont"
CursorContinuesAfterError(m) ==
    IF m.err \/ m.typ \in ErrorTypes \/ m.typ = "SUCCESS_PARTIAL" THEN "cont" ELSE "done"
CursorAfter(m) ==
    CASE m.err -> "error"
      [] m.typ = "SUCCESS_PARTIAL" -> "cont"
      [] m.typ \in ErrorTypes -> "error"
      [] OTHER -> "done"

\* the items of a batch as the cursor yields them: every document of the batch,
\* a changefeed's state markers and overflow notices among them, in its place
IsDocument(e) == e[3] \in {"doc", "change"}
YieldedDocuments(r) == SelectSeq(r, IsDocument)
Yielded(r) == r

\* a message that ends the stream with an error: a transport error or an error response
IsErrorMsg(m) == m.err \/ m.typ \in ErrorTypes

\* the cursor takes the next message of its channel: a final batch is yielded and
\* the stream is Done, a partial batch is yielded and asks for a CONTINUE, an error
\* ends the stream
Recv(c) ==
    /\ pc[c] = "await"
    /\ chan[c] # <<>>
    /\ LET m == Head(chan[c]) IN
        /\ chan' = [chan EXCEPT ![c] = Tail(@)]
        /\ got' = [got EXCEPT ![c] = @ \o Yielded(m.r)]
        /\ nPartial' = [nPartial EXCEPT ![c] =
                          IF ~m.err /\ m.typ = "SUCCESS_PARTIAL" THEN @ + 1 ELSE @]
        /\ nErr' = [nErr EXCEPT ![c] = IF IsErrorMsg(m) THEN @ + 1 ELSE @]
        /\ pc' = [pc EXCEPT ![c] = CursorAfter(m)]
    /\ UNCHANGED <<later, stale, termSt, dbSt, sawError, closeSt, session, op, tok, res, clones, closed, kind, wire, ncalls, nqueries,
                   issued, lastRet, floorTok, sawBroken, feedAll, wrote, written,
                   nCont, srvSent, feedDropped>>

\* after a partial batch: CONTINUE under the same token, then wait again
SendContinue(c) ==
    /\ pc[c] = "cont"
    /\ WriteFrame(c, "CONTINUE", FALSE, "none")
    /\ nCont' = [nCont EXCEPT ![c] = @ + 1]
    /\ pc' = [pc EXCEPT ![c] = "await"]
    /\ UNCHANGED <<extra, session, op, tok, res, clones, closed, chan, kind, got, fromSrv, srv,
                   dispatcher, ncalls, nqueries, issued, lastRet, floorTok, sawBroken,
                   feedAll, srvSent, nPartial, feedDropped>>

\* the Sender left the registry and the queue is empty: the receiver sees the
\* channel closed and whoever waits on it stops waiting
AwaitClosed(c) ==
    /\ pc[c] \in {"await", "rq_await", "cl_await"}
    /\ chan[c] = <<>>
    /\ ~Registered(c)
    /\ pc' = [pc EXCEPT ![c] = IF pc[c] = "await" THEN "ended" ELSE "op_drop"]
    /\ res' = [res EXCEPT ![c] = IF pc[c] = "await" THEN @ ELSE "Closed"]
    /\ UNCHANGED <<extra, session, op, tok, clones, closed, chan, kind, got, wire, history>>

\* ------------------------------------------------------------- the server
\* the documents of a batch: the token they belong to, their position in the
\* query's result and what they are
Elems(t, from, n) == [i \in 1..n |-> <<t, from + i, "doc">>]

\* what a changefeed sends: changes, the state markers {state: "initializing"} and
\* {state: "ready"}, and the notice {"error": "Changefeed cache over array size
\* limit, skipped N elements."}
FeedDocs == {"change", "initializing", "ready", "overflow"}
Docs(t, from, ds) == [i \in 1..Len(ds) |-> <<t, from + i, ds[i]>>]
DocBatches == UNION {[1..n -> FeedDocs] : n \in 1..MaxBatch}

\* the server reads the next query frame
SrvRead ==
    /\ toSrv # <<>>
    /\ LET f == Head(toSrv) IN
        /\ toSrv' = Tail(toSrv)
        /\ srv' = CASE f.q = "START" ->
                         [srv EXCEPT ![f.t] = [st |-> "run", feed |-> f.feed, n |-> 0, err |-> FALSE]]
                    [] f.q = "CONTINUE" /\ srv[f.t].st = "wait" ->
                         [srv EXCEPT ![f.t].st = "run"]
                    [] f.q = "STOP" /\ srv[f.t].st \in {"run", "wait"} ->
                         [srv EXCEPT ![f.t].st = "fin"]
                    [] OTHER -> srv
        /\ srvSent' = IF f.q = "START" THEN [srvSent EXCEPT ![f.t] = <<>>] ELSE srvSent
        /\ fromSrv' = CASE f.q = "STOP" ->
                             Append(fromSrv, Reply(f.t, "SUCCESS_SEQUENCE", <<>>))
                        [] f.q = "NOREPLY_WAIT" ->
                             Append(fromSrv, Reply(f.t, "WAIT_COMPLETE", <<>>))
                        [] f.q = "SERVER_INFO" ->
                             Append(fromSrv, Reply(f.t, "SERVER_INFO", <<>>))
                        [] OTHER -> fromSrv
    /\ pending' = [c \in Slots |-> Max2(pending[c] - 1, 0)]
    /\ UNCHANGED <<later, stale, termSt, dbSt, errs, noreply_wait, closing, session, tasks, dispatcher, ncalls, nqueries, issued,
                   lastRet, floorTok, sawBroken, feedAll, wrote, written, nCont, nPartial,
                   feedDropped>>

\* the server answers a running query with its next batch of n elements
SrvEmit(t, typ, n) ==
    /\ srv[t].st = "run"
    /\ srv[t].n + n <= MaxElems
    /\ CASE typ = "SUCCESS_PARTIAL" -> n >= 1
         [] typ = "SUCCESS_SEQUENCE" -> ~srv[t].feed
         [] typ = "SUCCESS_ATOM" -> ~srv[t].feed /\ srv[t].n = 0 /\ n = 1
         [] OTHER -> n = 0
    /\ srv' = [srv EXCEPT ![t].st = IF typ = "SUCCESS_PARTIAL" THEN "wait" ELSE "fin",
                          ![t].n = @ + n,
                          ![t].err = typ \in ErrorTypes]
    /\ fromSrv' = Append(fromSrv, Reply(t, typ, Elems(t, srv[t].n, n)))
    /\ srvSent' = [srvSent EXCEPT ![t] = @ \o Elems(t, srv[t].n, n)]
    /\ UNCHANGED <<extra, session, tasks, toSrv, dispatcher, ncalls, nqueries, issued, lastRet,
                   floorTok, sawBroken, feedAll, wrote, written, nCont, nPartial, feedDropped>>

\* the server answers a running changefeed with a batch of what the feed has to
\* say: a feed's batches are partial ones
SrvEmitFeed(t, ds) ==
    /\ srv[t].st = "run"
    /\ srv[t].feed
    /\ srv[t].n + Len(ds) <= MaxElems
    /\ srv' = [srv EXCEPT ![t].st = "wait", ![t].n = @ + Len(ds)]
    /\ fromSrv' = Append(fromSrv, Reply(t, "SUCCESS_PARTIAL", Docs(t, srv[t].n, ds)))
    /\ srvSent' = [srvSent EXCEPT ![t] = @ \o Docs(t, srv[t].n, ds)]
    /\ UNCHANGED <<extra, session, tasks, toSrv, dispatcher, ncalls, nqueries, issued, lastRet,
                   floorTok, sawBroken, feedAll, wrote, written, nCont, nPartial, feedDropped>>

\* ------------------------------------------------------------- Command::run
\* TryStreamExt::try_next on the stream: the next item if it is a value, None when
\* the stream has ended, the error if the item is one
TryNextLast(items, end) ==
    IF items # <<>> THEN <<"Some", items[Len(items)]>>
    ELSE IF end = "error" THEN <<"Err">> ELSE <<"None">>
TryNext(items, end) ==
    IF items # <<>> THEN <<"Some", Head(items)>>
    ELSE IF end = "error" THEN <<"Err">> ELSE <<"None">>

\* run: self.build_query(args).try_next().await, returning once the stream of
\* the query has produced its first item or has ended
RunReturn(c) ==
    /\ kind[c] = "query"
    /\ pc[c] \in {"cont", "done", "error"}
    /\ runRes[c] = <<>>
    /\ runRes' = [runRes EXCEPT ![c] = TryNext(got[c], pc[c])]
    /\ UNCHANGED <<errs, closeSt, dbSt, termSt, shareSt, optSt, sockSt, stale, session, tasks,
                   wire, history>>

\* ------------------------------------------------------------- the dispatcher
\* read one frame, look its token up in the registry, push it to that channel;
\* a frame for a token that is not registered is discarded
DispRoute ==
    /\ dispatcher = "run"
    /\ fromSrv # <<>>
    /\ LET f == Head(fromSrv) IN
        /\ fromSrv' = Tail(fromSrv)
        /\ chan' = IF channels[f.t] # NoSlot
                   THEN [chan EXCEPT ![channels[f.t]] = ChanSend(@, OkMsg(f.typ, f.r))]
                   ELSE chan
        /\ stale' = IF channels[f.t] # NoSlot THEN stale ELSE stale \cup {f.t}
    /\ UNCHANGED <<errs, closeSt, dbSt, termSt, later, session, pc, op, tok, res, clones, closed, kind, got, toSrv, srv,
                   dispatcher, history>>

\* an I/O or parse error: the session is marked broken, every registered channel
\* gets the error and is closed, and the dispatcher ends
DispError ==
    /\ dispatcher = "run"
    /\ dispatcher' = "stopped"
    /\ broken' = TRUE
    /\ feedAll' = FeedAllAfter(change_feed, TRUE)
    /\ chan' = [c \in Slots |-> IF Registered(c) THEN ChanSend(chan[c], ErrMsg) ELSE chan[c]]
    /\ channels' = [t \in Tokens |-> NoSlot]
    /\ UNCHANGED <<extra, token, change_feed, build, pc, op, tok, res, clones, closed, kind, got,
                   toSrv, fromSrv, srv, ncalls, nqueries, issued, lastRet, floorTok,
                   sawBroken, wrote, written, nCont, srvSent, nPartial, feedDropped>>

\* ------------------------------------------------------------- the system
ReplyTypes == {"SUCCESS_ATOM", "SUCCESS_SEQUENCE", "SUCCESS_PARTIAL", "RUNTIME_ERROR"}

\* connection() and what follows it in every Session operation
Calling(c) ==
    \/ Return(c)
    \/ CallFeed(c)
    \/ CallToken(c)
    \/ CallInsert(c)

\* the token counter at its largest value
Exhausting(c) ==
    \/ CallTokenLast(c)
    \/ CallTokenPanic(c)
    \/ CallMark(c)

\* The Session API used by concurrent tasks during the first FewCalls operations
\* of a session (the token counter stays below its largest value): every
\* operation of Session, clones and drops of Connections, queries and changefeeds
\* being started, the server answering the control queries, the dispatcher
\* routing and failing.
Next ==
    \/ \E c \in Tasks, o \in SessionOps : \E nw \in Args(o) : ncalls < FewCalls /\ Invoke(c, o, nw)
    \/ \E c \in Tasks : Calling(c)
    \/ \E c \in Tasks : Reinvoke(c)
    \/ \E c \in Tasks : CloneConn(c)
    \/ \E c \in Tasks : DropClone(c)
    \/ \E c \in Tasks : DropConn(c)
    \/ \E c \in Tasks : RqWrite(c)
    \/ \E c \in Tasks : RqAwait(c)
    \/ \E c \in Tasks : ClCheck(c)
    \/ \E c \in Tasks : ClWrite(c)
    \/ \E c \in Tasks : ClAwait(c)
    \/ \E c \in Tasks : OpDrop(c)
    \/ \E c \in Tasks, k \in {"query", "feed"} : nqueries < MaxQueries /\ StartQuery(c, k)
    \/ \E c \in Tasks : AwaitClosed(c)
    \/ SrvRead
    \/ DispRoute
    \/ DispError

Spec == Init /\ [][Next]_vars

\* A long run of connection() calls: the token counter reaches its largest value
\* and goes past it.
TokenNext ==
    \/ \E c \in Slots : ncalls < ManyCalls /\ Invoke(c, "connection", FALSE)
    \/ \E c \in Slots : Calling(c)
    \/ \E c \in Slots : Exhausting(c)
    \/ \E c \in Slots : DropConn(c)

TokenSpec == Init /\ [][TokenNext]_vars

\* Queries on the wire during the first FewCalls connection() calls of a session:
\* the queries run on the Connections, the server's batches, the dispatcher and
\* the cursors.
WireNext ==
    \/ \E c \in Tasks : ncalls < FewCalls /\ Invoke(c, "connection", FALSE)
    \/ \E c \in Tasks : Calling(c)
    \/ \E c \in Tasks : DropConn(c)
    \/ \E c \in Tasks, k \in {"query", "feed"} : nqueries < MaxQueries /\ StartQuery(c, k)
    \/ \E c \in Tasks : Recv(c)
    \/ \E c \in Tasks : SendContinue(c)
    \/ SrvRead
    \/ \E t \in Tokens, typ \in ReplyTypes, n \in 0..MaxBatch : SrvEmit(t, typ, n)
    \/ DispRoute
    \/ DispError

WireSpec == Init /\ [][WireNext]_vars

\* Connection::close called by the callers themselves on the Connections they
\* hold, clones included, with queries and changefeeds started on them.
CloseNext ==
    \/ \E c \in Tasks : ncalls < FewCalls /\ Invoke(c, "connection", FALSE)
    \/ \E c \in Tasks : Calling(c)
    \/ \E c \in Tasks : CloneConn(c)
    \/ \E c \in Tasks : DropClone(c)
    \/ \E c \in Tasks : DropConn(c)
    \/ \E c \in Tasks, k \in {"query", "feed"} : nqueries < MaxQueries /\ StartQuery(c, k)
    \/ \E c \in Tasks, nw \in BOOLEAN : ConnClose(c, nw)
    \/ \E c \in Tasks : ConnCloseWrite(c)
    \/ \E c \in Tasks : ConnCloseAwait(c)
    \/ SrvRead
    \/ DispRoute
    \/ DispError

CloseSpec == Init /\ [][CloseNext]_vars

\* The default database switched with use_ while queries are started.
UseNext ==
    \/ \E c \in Tasks : ncalls < FewCalls /\ Invoke(c, "connection", FALSE)
    \/ \E c \in Tasks : Calling(c)
    \/ \E c \in Tasks : DropConn(c)
    \/ \E c \in Tasks, k \in {"query", "feed"} : nqueries < MaxQueries /\ StartQuery(c, k)
    \/ \E d \in DbNames : UseLock(d)
    \/ UseStore
    \/ SrvRead

UseSpec == Init /\ [][UseNext]_vars

\* Command trees being built by chained calls and serialised.
TermNext ==
    \/ \E name \in Datums : TermTable(name)
    \/ \E document \in Datums : TermInsert(document)
    \/ \E lower_key, upper_key \in Datums : TermBetween(lower_key, upper_key)
    \/ \E o \in OptValues : TermWithOpts(o)
    \/ \E index_keys \in KeyLists : TermGetAll(index_keys)
    \/ TermMax
    \/ \E s \in OptStructs : \E v \in OptionValues(s) : MakeQuery(s, v)
    \/ TermSerialise

TermSpec == Init /\ [][TermNext]_vars

\* Changefeeds on the wire: the server's batches of changes, state markers and
\* overflow notices, the dispatcher and the cursors.
FeedNext ==
    \/ \E c \in Tasks : ncalls < FewCalls /\ Invoke(c, "connection", FALSE)
    \/ \E c \in Tasks : Calling(c)
    \/ \E c \in Tasks : nqueries < MaxQueries /\ StartQuery(c, "feed")
    \/ \E c \in Tasks : Recv(c)
    \/ \E c \in Tasks : SendContinue(c)
    \/ SrvRead
    \/ \E t \in Tokens, ds \in DocBatches : SrvEmitFeed(t, ds)
    \/ DispRoute
    \/ DispError

FeedSpec == Init /\ [][FeedNext]_vars

\* Queries executed with run: the first item of the query's stream is returned.
RunNext ==
    \/ \E c \in Tasks : ncalls < FewCalls /\ Invoke(c, "connection", FALSE)
    \/ \E c \in Tasks : Calling(c)
    \/ \E c \in Tasks : nqueries < MaxQueries /\ StartQuery(c, "query")
    \/ \E c \in Tasks : Recv(c)
    \/ \E c \in Tasks : SendContinue(c)
    \/ \E c \in Tasks : RunReturn(c)
    \/ SrvRead
    \/ \E t \in Tokens, typ \in ReplyTypes, n \in 0..MaxBatch : SrvEmit(t, typ, n)
    \/ DispRoute
    \/ DispError

RunSpec == Init /\ [][RunNext]_vars

\* Tasks that hold Connections write query frames to the one socket.
SockNext ==
    \/ \E c \in Tasks : ncalls < FewCalls /\ Invoke(c, "connection", FALSE)
    \/ \E c \in Tasks : Calling(c)
    \/ \E c \in Tasks, q \in QueryTypes : FramesBegun < MaxFrames /\ SockLock(c, q)
    \/ \E c \in Tasks : SockWrite(c)
    \/ \E c \in Tasks : SockUnlock(c)

SockSpec == Init /\ [][SockNext]_vars

\* Two chains built on one Command the caller keeps.
ShareNext ==
    \/ \E name \in Datums : ShareBase(name)
    \/ \E new \in ChainedTerms : ShareLeft(new)
    \/ \E new \in ChainedTerms : ShareRight(new)

ShareSpec == Init /\ [][ShareNext]_vars

\* Two queries and no failure: the server answers, the dispatcher routes and the
\* first task polls its stream; nothing makes the second task poll its own.
LiveNext ==
    \/ \E c \in Tasks : ncalls < FewCalls /\ Invoke(c, "connection", FALSE)
    \/ \E c \in Tasks : Calling(c)
    \/ \E c \in Tasks, k \in {"query", "feed"} : nqueries < MaxQueries /\ StartQuery(c, k)
    \/ \E c \in Tasks : Recv(c)
    \/ \E c \in Tasks : SendContinue(c)
    \/ SrvRead
    \/ \E t \in Tokens, typ \in ReplyTypes, n \in 0..MaxBatch : SrvEmit(t, typ, n)
    \/ DispRoute

LiveSpec ==
    /\ Init
    /\ [][LiveNext]_vars
    /\ WF_vars(SrvRead)
    /\ \A t \in Tokens : WF_vars(\E typ \in ReplyTypes, n \in 0..MaxBatch : SrvEmit(t, typ, n))
    /\ WF_vars(DispRoute)
    /\ WF_vars(Recv(1))
    /\ WF_vars(SendContinue(1))

\* ------------------------------------------------------------- properties
\* the task of slot c holds a Connection it got from connection()
HoldsConn(c) ==
    \/ pc[c] \in {"open", "await", "cont", "done", "error", "ended", "rq_write",
                  "rq_await", "cl_check", "cl_write", "cl_await", "op_drop"}
    \/ pc[c] = "ret" /\ op[c] = "connection" /\ res[c] = "Ok"

\* the Connection of slot c, the handle itself or a clone of it, is alive
Live(c) == HoldsConn(c) \/ clones[c] > 0

Returned(c) == pc[c] = "ret"

\* C1: the tokens of successful connection() calls on one session are pairwise
\* distinct, and a call that starts after another call has returned is given a
\* strictly larger token than that call.
C1_TokensDistinctAndIncreasing ==
    /\ \A t \in Tokens : issued[t] <= 1
    /\ \A c \in Slots : Returned(c) /\ res[c] = "Ok" => tok[c] > floorTok[c]

\* C2: the broken flag, once set, is never cleared, and every Session operation
\* (connection, noreply_wait, server, close, reconnect) that starts when the flag
\* is set returns ConnectionBroken at once, having written no frame to the socket.
C2_BrokenStaysAndFailsFast ==
    /\ [][broken => broken']_vars
    /\ [](\A c \in Slots : sawBroken[c] =>
            Returned(c) /\ res[c] = "ConnectionBroken" /\ wrote[c] = 0)

\* C2 witness: server() was called on a broken session and returned the error
C2_BrokenCallSeen ==
    \E c \in Slots : sawBroken[c] /\ op[c] = "server" /\ res[c] = "ConnectionBroken"

\* C6: at every moment at most one changefeed is open on the session.
C6_AtMostOneChangefeed ==
    Cardinality({c \in Slots : FeedOpen(c)}) <= 1

\* C7: a connection() call during which the changefeed flag stays set and the
\* session stays unbroken returns ConnectionLocked: after its change_feed()? check
\* such a call has returned, and with that error.
C7_LockedWhileFeedActive ==
    \A c \in Slots : feedAll[c] =>
        pc[c] = "c_feed" \/ (Returned(c) /\ res[c] = "ConnectionLocked")

\* C7 witness: a call returned ConnectionLocked with the flag set all along
C7_LockedCallSeen ==
    \E c \in Slots : feedAll[c] /\ Returned(c) /\ res[c] = "ConnectionLocked"

\* C8: every token in the registry is the token of exactly one live Connection
\* (a Connection and its clones counting as one).
C8_RegisteredTokenHasOneConnection ==
    \A t \in Tokens : channels[t] # NoSlot =>
        Cardinality({c \in Slots : Live(c) /\ tok[c] = t}) = 1


IsPrefix(a, b) == Len(a) <= Len(b) /\ SubSeq(b, 1, Len(a)) = a

\* C3: when a Connection is dropped with its changefeed still open, a STOP frame
\* for its token has been written to the socket, and the token is left without a
\* channel, so that nothing more is delivered for it.
C3_DropOfOpenFeedSendsStop ==
    \A t \in feedDropped : <<"STOP", t>> \in written /\ channels[t] = NoSlot

\* C4: the elements a cursor has yielded are, in order, the first elements the
\* server sent for its token: batch after batch, element after element, whatever
\* the dispatcher routed to other tokens in between.
C4_YieldedInServerOrder ==
    \A c \in Slots : kind[c] # "none" => IsPrefix(got[c], srvSent[tok[c]])

\* C4 witness: a cursor is Done after two batches while the other cursor has
\* received elements of its own
C4_TwoBatchesInterleaved ==
    \E c, d \in Slots :
        /\ c # d
        /\ pc[c] = "done" /\ nPartial[c] >= 1 /\ Len(got[c]) = 2
        /\ Len(got[d]) >= 1

\* C5: with two queries in flight on distinct tokens, a cursor that is Done has
\* yielded exactly the elements the server sent for its token, and the first
\* task's query comes to an end though the second task may never poll its stream.
C5_OwnElementsAndProgress ==
    /\ [](\A c \in Slots : pc[c] = "done" => got[c] = srvSent[tok[c]])
    /\ (kind[1] = "query" /\ pc[1] = "await") ~> (pc[1] \in {"done", "error"})

\* C5 witness: the first cursor is Done with its elements while a response for
\* the second waits in its channel, not polled
C5_DoneWhileOtherUnpolled ==
    /\ pc[1] = "done" /\ got[1] # <<>> /\ got[1] = srvSent[tok[1]]
    /\ kind[2] = "query" /\ pc[2] = "await" /\ chan[2] # <<>> /\ got[2] = <<>>
    /\ tok[1] # tok[2]

\* C9: once the dispatcher has failed the session is broken and every Connection
\* that is open or awaiting a response has the terminal error in its channel.
C9_ErrorReachesEveryConsumer ==
    dispatcher = "stopped" =>
        /\ broken
        /\ \A c \in Slots : pc[c] \in {"open", "await"} =>
            \E i \in 1..Len(chan[c]) : chan[c][i].err

\* C10: a cursor has written one CONTINUE for each partial batch it received,
\* none before the batch arrived and none after a final or error response; the
\* CONTINUE goes out before the next batch is awaited, under the token of a query
\* that was started and answered; a cursor that is Done has yielded all elements.
C10_ContinueOnlyAfterPartial ==
    /\ \A c \in Slots :
        /\ pc[c] = "await" => nCont[c] = nPartial[c]
        /\ pc[c] = "cont" => nCont[c] + 1 = nPartial[c]
        /\ pc[c] \in {"done", "error"} => nCont[c] = nPartial[c]
        /\ pc[c] = "done" => got[c] = srvSent[tok[c]]
    /\ \A t \in Tokens : <<"CONTINUE", t>> \in written =>
        <<"START", t>> \in written /\ srvSent[t] # <<>>

\* C10 witness: a cursor is Done after a partial batch, a CONTINUE and a final batch
C10_ContinuedThenDone ==
    \E c \in Slots : pc[c] = "done" /\ nCont[c] = 1 /\ nPartial[c] = 1 /\ Len(got[c]) = 2


\* C11: a cursor that received an error response has yielded that error once,
\* as its last item: it is in Error exactly when it has yielded an error, and
\* from then on it yields nothing more and writes no CONTINUE.
C11_ErrorOnceAndLast ==
    /\ [](\A c \in Slots : nErr[c] <= 1 /\ (nErr[c] = 1 <=> pc[c] = "error"))
    /\ [][\A c \in Slots : pc[c] = "error" /\ pc'[c] = "error" =>
            got'[c] = got[c] /\ nErr'[c] = nErr[c] /\ nCont'[c] = nCont[c]
            /\ wrote'[c] = wrote[c]]_vars

\* C11 witness: a cursor yielded an element of a partial batch, sent its CONTINUE
\* and then received the server's error response
C11_ErrorAfterElements ==
    \E c \in Slots :
        /\ pc[c] = "error" /\ nErr[c] = 1 /\ dispatcher = "run"
        /\ got[c] # <<>> /\ nCont[c] = 1


C13_BrokenAtLargestAndNoReuse ==
    /\ issued[TokenMax] >= 1 => broken
    /\ \A t \in Tokens : issued[t] < 2


\* C14: a Session::close or reconnect call that has returned, begun while a
\* changefeed was active on a session that is not broken and with nothing else
\* clearing the flag meanwhile, has written a STOP frame and left the
\* changefeed flag cleared.
C14_CloseStopsActiveFeed ==
    \A c \in Slots :
        Returned(c) /\ op[c] \in {"close", "reconnect"} /\ feedAll[c] =>
            /\ \E t \in Tokens : <<"STOP", t>> \in written
            /\ ~change_feed


\* C15: a close(true) or reconnect(true, _) call that has returned Ok leaves no
\* request that was written before the call began unread by the server.
C15_CloseWaitsForOutstanding ==
    \A c \in Slots :
        Returned(c) /\ op[c] \in {"close", "reconnect", "reconnect2"}
                    /\ noreply_wait[c] /\ res[c] = "Ok" => pending[c] = 0


Answered(t) ==
    /\ \A i \in 1..Len(toSrv) : toSrv[i].t # t
    /\ \A i \in 1..Len(fromSrv) : fromSrv[i].t # t

\* C17: a noreply_wait() call that has returned Ok wrote one NOREPLY_WAIT frame
\* under a token issued to no one else, newer than every token returned before
\* the call, and has taken the response for it; a call that wrote nothing failed
\* in connection(), and any other call that is not Ok failed in the request.
C17_NoreplyWaitRoundTrip ==
    \A c \in Slots : Returned(c) /\ op[c] = "noreply_wait" =>
        /\ res[c] = "Ok" =>
            /\ <<"NOREPLY_WAIT", tok[c]>> \in written /\ wrote[c] = 1
            /\ issued[tok[c]] = 1 /\ tok[c] > floorTok[c]
            /\ Answered(tok[c]) /\ \A i \in 1..Len(chan[c]) : chan[c][i].err
        /\ wrote[c] = 0 => res[c] \in {"ConnectionBroken", "ConnectionLocked"}
        /\ wrote[c] # 0 => res[c] \in {"Ok", "Error", "Closed"}

\* C17 witness: a noreply_wait() call has returned Ok after its round trip
C17_NoreplyWaitReturnedOk ==
    \E c \in Slots :
        /\ Returned(c) /\ op[c] = "noreply_wait" /\ res[c] = "Ok"
        /\ <<"NOREPLY_WAIT", tok[c]>> \in written


\* C18: whenever no use_ call is in progress the default database is the name
\* of the last use_ that returned; every START frame carries a complete name, and
\* the one written by a query being started carries that last name; a step that
\* changes the stored name changes nothing else of the session.
C18_UseSwapsDefaultDb ==
    /\ [](~dbLock => db = Whole(lastUse))
    /\ [](\A i \in 1..Len(toSrv) :
            toSrv[i].q = "START" => \E n \in DbNames : toSrv[i].arg = Whole(n))
    /\ [][Len(toSrv') > Len(toSrv) /\ toSrv'[Len(toSrv')].q = "START" =>
            toSrv'[Len(toSrv')].arg = Whole(lastUse)]_vars
    /\ [][db' # db => UNCHANGED <<token, channels, broken, change_feed>>]_vars

\* C18 witness: after use_("simbad") returned, a query was started and its START
\* frame names simbad
C18_QueryUsesNewDb ==
    /\ lastUse = "simbad" /\ ~dbLock
    /\ \E i \in 1..Len(toSrv) : toSrv[i].q = "START" /\ toSrv[i].arg = Whole("simbad")


\* where the serialisation of argument i of c begins in the serialisation of c
RECURSIVE ArgStart(_, _)
ArgStart(c, i) ==
    IF i = 1 THEN 5 ELSE ArgStart(c, i - 1) + Len(Serialise(c.args[i - 1])) + 1

\* C19: the serialisation of a term opens with [code,[ , holds the
\* serialisations of its arguments one after the other in order, separated by
\* commas, closes the argument array, and goes on with the options object exactly
\* when the term has options; table("foo").insert(doc) prints as
\* [56,[[15,["foo"]],doc]].
C19_SerialisedShape ==
    lastOp = "serialise" =>
        /\ SubSeq(out, 1, 4) = <<"[", TypeCode(cmd.typ), ",", "[">>
        /\ \A i \in 1..Len(cmd.args) :
            LET a == Serialise(cmd.args[i])
                from == ArgStart(cmd, i)
            IN /\ SubSeq(out, from, from + Len(a) - 1) = a
               /\ out[from + Len(a)] = IF i = Len(cmd.args) THEN "]" ELSE ","
        /\ LET end == ArgStart(cmd, Len(cmd.args) + 1) IN
            IF cmd.opts = "none"
            THEN Len(out) = end /\ out[end] = "]"
            ELSE Len(out) = end + 2 /\ SubSeq(out, end, end + 2) = <<",", cmd.opts, "]">>
        /\ cmd = WithParent(WithArg(NewCommand("Insert"), FromJson(BarDoc)),
                            WithArg(NewCommand("Table"), FromJson(FooName))) =>
            out = <<"[", "56", ",", "[", "[", "15", ",", "[", FooName, "]", "]", ",",
                    BarDoc, "]", "]">>

\* C19 witness: table("foo").insert(doc) has been serialised
C19_TableInsertSerialised ==
    /\ lastOp = "serialise"
    /\ cmd.typ = "Insert" /\ Len(cmd.args) = 2
    /\ cmd.args[1] = TableCommand(FooName) /\ cmd.args[2] = FromJson(BarDoc)
    /\ out # <<>>

\* C20: after c.with_parent(p) the term has p as its first argument, followed by
\* the arguments of c in their order, and the term type and options of c.
C20_WithParentPrepends ==
    lastOp = "with_parent" =>
        /\ Len(cmd.args) = Len(prev.args) + 1
        /\ cmd.args[1] = parent
        /\ \A i \in 1..Len(prev.args) : cmd.args[i + 1] = prev.args[i]
        /\ cmd.typ = prev.typ /\ cmd.opts = prev.opts

\* C20 witness: between(lo, hi) was chained on a term: two arguments of its own
\* behind the parent
C20_BetweenChained ==
    /\ lastOp = "with_parent"
    /\ cmd.typ = "Between" /\ Len(prev.args) = 2 /\ Len(cmd.args) = 3
    /\ prev.args[1] # prev.args[2]
    /\ parent.typ = "Insert"

\* the term the builder made before it was given its parent
OwnTerm(c) == [c EXCEPT !.args = Tail(@)]

\* C21: a builder method called on a command c returns a new tree and leaves c
\* as it was: c is the first argument of each of the two trees built on it, and
\* each tree serialises as its own call on c does, whichever was built first.
C21_BuilderLeavesReceiver ==
    /\ cmd = shared
    /\ \A t \in {left, right} : t # <<>> =>
        /\ t[1].args[1] = shared
        /\ Serialise(t[1]) = Serialise(WithParent(OwnTerm(t[1]), shared))
        /\ SubSeq(Serialise(t[1]), 5, 4 + Len(Serialise(shared))) = Serialise(shared)

\* C21 witness: two different chains stand on the same table, the second built
\* after the first
C21_TwoChainsOnOneTable ==
    /\ lastOp = "right" /\ left # <<>> /\ right # <<>>
    /\ left[1].typ = "GetAll" /\ right[1].typ = "Between"
    /\ left[1].args[1] = right[1].args[1]


\* C22: the options object make_query serialises has no key for a field that
\* was left unset, and a term whose options are all unset has no options object.
C22_UnsetOptionsLeftOut ==
    lastOp = "make_query" =>
        /\ \A i \in 1..Len(optVal) : optVal[i] = "none" =>
            \A j \in 1..Len(optObj) : optObj[j][1] # Fields(optStruct)[i]
        /\ optVal = DefaultOption(optStruct) => cmd.opts = "none"

\* the cursor of slot c takes a message in this step
Receives(c) ==
    pc[c] = "await" /\ chan[c] # <<>> /\ chan'[c] = Tail(chan[c]) /\ pc'[c] # "idle"

HasKind(r, k) == \E i \in 1..Len(r) : r[i][3] = k

\* C23: what a changefeed's batches hold is yielded as it came: once the cursor
\* has taken a batch it has yielded everything the server sent for its token, the
\* state markers and the overflow notices in their places; and a batch that
\* holds an overflow notice leaves the cursor asking for the next batch and the
\* session as sound as it was.
C23_FeedDocumentsPassThrough ==
    /\ [](\A c \in Slots : kind[c] = "feed" =>
            /\ IsPrefix(got[c], srvSent[tok[c]])
            /\ pc[c] = "cont" => got[c] = srvSent[tok[c]])
    /\ [][\A c \in Slots :
            Receives(c) /\ ~Head(chan[c]).err /\ HasKind(Head(chan[c]).r, "overflow") =>
                pc'[c] = "cont" /\ broken' = broken /\ nErr'[c] = nErr[c]]_vars

\* C23 witness: a changefeed's cursor has yielded the initializing marker and
\* then an overflow notice, and goes on
C23_MarkerAndNoticeYielded ==
    \E c \in Slots :
        /\ kind[c] = "feed" /\ pc[c] \in {"cont", "await"} /\ ~broken
        /\ Len(got[c]) = 2
        /\ got[c][1][3] = "initializing" /\ got[c][2][3] = "overflow"


\* C24: what run has returned is the first item of the query's stream:
\* Some(v) with v the first element the server sent for the token, None when the
\* query ended without an element, and the error when the stream's first item
\* was the error.
C24_RunReturnsFirstItem ==
    \A c \in Slots : kind[c] = "query" /\ runRes[c] # <<>> =>
        /\ got[c] # <<>> =>
            runRes[c] = <<"Some", srvSent[tok[c]][1]>> /\ runRes[c][2] = got[c][1]
        /\ got[c] = <<>> /\ pc[c] = "done" => runRes[c] = <<"None">>
        /\ got[c] = <<>> /\ pc[c] = "error" => runRes[c] = <<"Err">>
        /\ pc[c] \in {"await", "cont", "done", "error"}

\* C24 witness: run returned the first of two elements that came in one batch
C24_FirstOfTwoReturned ==
    \E c \in Slots :
        /\ kind[c] = "query" /\ Len(runRes[c]) = 2 /\ Len(got[c]) = 2
        /\ nPartial[c] = 0 /\ pc[c] = "done"
        /\ runRes[c][2] = got[c][1]


\* C25: the drop of a Connection leaves its token without a channel, and a frame
\* the dispatcher then reads for a token without a channel goes to no consumer and
\* changes neither the registry nor the broken flag nor the dispatcher.
C25_StaleFrameDiscarded ==
    /\ [][\A c \in Slots :
            pc[c] \in {"open", "await", "cont", "done", "error"} /\ pc'[c] = "idle" =>
                channels'[tok[c]] = NoSlot]_vars
    /\ [][dispatcher = "run" /\ fromSrv # <<>> /\ fromSrv' = Tail(fromSrv)
            /\ channels[Head(fromSrv).t] = NoSlot =>
                chan' = chan /\ got' = got /\ channels' = channels /\ broken' = broken
                /\ dispatcher' = dispatcher]_vars
    /\ [](\A c \in Slots : kind[c] # "none" => IsPrefix(got[c], srvSent[tok[c]]))

\* C25 witness: a frame for a dropped Connection's token was discarded, the
\* session is not broken and another query's cursor is Done with all its elements
C25_DiscardedWhileOtherDone ==
    \E t \in stale : \E c \in Slots :
        /\ channels[t] = NoSlot /\ ~broken /\ dispatcher = "run"
        /\ tok[c] # t /\ pc[c] = "done" /\ got[c] # <<>> /\ got[c] = srvSent[tok[c]]

\* one handle of slot c goes out of scope in this step
Dropped(c) ==
    \/ pc[c] \in {"open", "await", "cont", "done", "error", "ended"} /\ pc'[c] = "idle"
    \/ pc[c] = "op_drop" /\ pc'[c] # "op_drop"
    \/ clones'[c] < clones[c]

\* C26: the drop of a Connection whose query is not a changefeed leaves the
\* session's changefeed flag as it was.
C26_DropOfPlainKeepsFlag ==
    [][\A c \in Slots : kind[c] # "feed" /\ Dropped(c) => change_feed' = change_feed]_vars


\* C27: at most one task is between the chunks of a frame, and on the socket
\* every header is followed at once by the body of the same frame: the chunks of
\* two frames are never interleaved.
C27_OneWriterWholeFrames ==
    /\ Cardinality({c \in Slots : wq[c] # "none"}) <= 1
    /\ \A i \in 1..Len(sock) :
        /\ sock[i][3] = "body" =>
            i > 1 /\ sock[i - 1] = <<sock[i][1], sock[i][2], "header">>
        /\ sock[i][3] = "header" /\ i < Len(sock) =>
            sock[i + 1] = <<sock[i][1], sock[i][2], "body">>

\* C27 witness: two tasks have each written a whole frame under their tokens
C27_TwoFramesWritten ==
    /\ Len(sock) = 4 /\ sock[1][1] # sock[3][1]
    /\ sock[2][3] = "body" /\ sock[4][3] = "body"
    /\ streamLock = NoSlot /\ Len(toSrv) = 2


\* C28: a Connection::close call made while the changefeed flag is not set
\* returns Ok at once and changes nothing: no frame is written, the closed flag
\* stays as it was, and the registry, the counter and the flags are unchanged.
C28_CloseWithoutFeedIsNoop ==
    /\ [][\A c \in Slots : closing[c] = "no" /\ closing'[c] # "no" /\ ~change_feed =>
            /\ closing'[c] = "noop"
            /\ UNCHANGED <<closed, toSrv, written, wrote, channels, token, broken,
                           change_feed>>]_vars
    /\ [](\A c \in Slots : closing[c] = "noop" => ~closed[c])

\* C28 witness: close was called on the Connection of a running query that is not
\* a changefeed: no STOP went out and the Connection is not closed
C28_PlainConnectionClosed ==
    \E c \in Slots :
        /\ closing[c] = "noop" /\ ~closed[c]
        /\ kind[c] = "query" /\ pc[c] = "await"
        /\ <<"STOP", tok[c]>> \notin written /\ Registered(c)


\* C29: a connection() call that fails leaves the session as it was: a call
\* begun on a broken session, or with the changefeed flag set all along, has
\* taken no token and registered no channel, and the step that returns
\* ConnectionBroken or ConnectionLocked changes neither the counter nor the registry.
C29_FailedConnectionChangesNothing ==
    /\ [](\A c \in Slots : sawBroken[c] \/ feedAll[c] =>
            tok[c] = NoToken /\ \A t \in Tokens : channels[t] # c)
    /\ [][\A c \in Slots :
            pc[c] # "ret" /\ pc'[c] = "ret"
                /\ res'[c] \in {"ConnectionBroken", "ConnectionLocked"} =>
                    token' = token /\ channels' = channels]_vars

\* C29 witness: after one Connection was handed out a connection() call returned
\* ConnectionLocked: the counter stands at the next token and the registry holds
\* the one channel
C29_LockedCallLeftCounter ==
    \E c \in Slots :
        /\ Returned(c) /\ op[c] = "connection" /\ res[c] = "ConnectionLocked"
        /\ tok[c] = NoToken /\ token = 1
        /\ Cardinality({t \in Tokens : channels[t] # NoSlot}) = 1


\* C30: when noreply_wait() or server() has returned, the token it was given is
\* not in the registry; every token in the registry is the token of a Connection
\* a caller holds, and the drop that ends such a call removes no other token.
C30_ControlCallsLeaveNoToken ==
    /\ [](\A c \in Slots :
            Returned(c) /\ op[c] \in {"noreply_wait", "server"} /\ tok[c] # NoToken =>
                channels[tok[c]] = NoSlot)
    /\ [](\A t \in Tokens : channels[t] # NoSlot =>
            tok[channels[t]] = t /\ HoldsConn(channels[t]))
    /\ [][\A c \in Slots : pc[c] = "op_drop" /\ pc'[c] # "op_drop" =>
            \A t \in Tokens : t # tok[c] => channels'[t] = channels[t]]_vars

\* C30 witness: server() has returned Ok and its token is gone, while the
\* Connection another task holds is still registered
C30_ServerReturnedOtherKept ==
    \E c, d \in Slots :
        /\ Returned(c) /\ op[c] = "server" /\ res[c] = "Ok"
        /\ tok[c] # NoToken /\ channels[tok[c]] = NoSlot
        /\ pc[d] = "open" /\ channels[tok[d]] = d


====
